---------------------------- MODULE Spec2Model ----------------------------
(***************************************************************************)
(* A model of uhid-example.c, the UHID keyboard emulator: the dispatch     *)
(* loop of main(), the stdin translator keyboard(), the device reader      *)
(* event(), the key-state tracker (add_key / remove_key / clear_keys),     *)
(* the escape buffer and the records written to the uhid device.           *)
(*                                                                         *)
(* C arrays are functions over their C indices (key_codes over 0..5,       *)
(* escape_buf over 0..7, a report over 0..7); the stdin chunk buf is a     *)
(* sequence, so the C index i of the loop is i - 1 here.                   *)
(***************************************************************************)
EXTENDS Integers, Sequences, FiniteSets

VARIABLES
    pc,               \* position of the process in main() / keyboard()
    fd,               \* the device handle: "none", "open" or "closed"
    exit_status,      \* "running", "EXIT_SUCCESS" or "EXIT_FAILURE"
    pfds,             \* revents of pfds[0] (stdin) and pfds[1] (device)
    buf,              \* keyboard(): the chunk read from stdin
    i,                \* keyboard(): loop index into buf (1-based)
    hid_code,         \* keyboard(): usage code of the byte being emitted
    modifier_keys,    \* static: modifier bitfield
    key_codes,        \* static: the six key slots
    num_keys_pressed, \* static: number of keys currently pressed
    escape_buf,       \* static: escape sequence buffer
    escape_len,       \* static: number of bytes buffered
    log,              \* the records handed to write() on the device, in order
    write_failed,     \* some write() of an Input record failed or was short
    errmsg,           \* the diagnostic printed when the dispatch loop broke
    stdin_read,       \* the chunks read() has returned on stdin, in order
    presses,          \* tracker harness: codes pressed since the last clear
    pure,             \* tracker harness: those presses were distinct, no release
    rt                \* tracker harness: outcome of the last press-then-release

vars == <<pc, fd, exit_status, pfds, buf, i, hid_code, modifier_keys,
          key_codes, num_keys_pressed, escape_buf, escape_len, log,
          write_failed, errmsg, stdin_read, presses, pure, rt>>

(***************************************************************************)
(* Bounds of the model.                                                    *)
(***************************************************************************)
\* total number of bytes stdin delivers in one run
MaxInput == 3

\* the tracker harness presses and releases the codes 1..MaxCode
MaxCode == 7

(***************************************************************************)
(* Program constants.                                                      *)
(***************************************************************************)
\* key_codes[6]
NumSlots == 6

\* escape_buf[8]
EscapeBufSize == 8

\* ev.u.input.size = 8
ReportSize == 8

\* the ESC byte
ESC == 27

\* Left Shift bit of the modifier byte
LeftShift == 2

\* the bytes stdin may deliver: ESC, '[', 'A', 'q', '~'
Bytes == {27, 91, 65, 113, 126}

Min(a, b) == IF a < b THEN a ELSE b

RECURSIVE Flatten(_)
Flatten(ss) == IF ss = <<>> THEN <<>> ELSE Head(ss) \o Flatten(Tail(ss))

\* the non-empty chunks of at most n bytes
ChunksUpTo(n) == UNION {[1..k -> Bytes] : k \in 1..n}

(***************************************************************************)
(* ascii_to_hid: the usage code of an input byte, 0 for an unmapped byte.  *)
(***************************************************************************)
ascii_to_hid(c) ==
    IF c >= 97 /\ c <= 122 THEN 4 + (c - 97)
    ELSE IF c >= 65 /\ c <= 90 THEN 4 + (c - 65)
    ELSE IF c >= 49 /\ c <= 57 THEN 30 + (c - 49)
    ELSE IF c = 48 THEN 39
    ELSE IF c = 32 THEN 44
    ELSE IF c = 10 \/ c = 13 THEN 40
    ELSE IF c = 8 THEN 42
    ELSE IF c = 9 THEN 43
    ELSE IF c = 27 THEN 41
    ELSE CASE c = 33 -> 30
           [] c = 64 -> 31
           [] c = 35 -> 32
           [] c = 36 -> 33
           [] c = 37 -> 34
           [] c = 94 -> 35
           [] c = 38 -> 36
           [] c = 42 -> 37
           [] c = 40 -> 38
           [] c = 41 -> 39
           [] c = 45 -> 45
           [] c = 61 -> 46
           [] c = 91 -> 47
           [] c = 93 -> 48
           [] c = 92 -> 49
           [] c = 59 -> 51
           [] c = 39 -> 52
           [] c = 96 -> 53
           [] c = 44 -> 54
           [] c = 46 -> 55
           [] c = 47 -> 56
           [] OTHER -> 0

\* the four arrow usage codes the shift test of keyboard() excludes
IsArrow(h) == h = 82 \/ h = 81 \/ h = 79 \/ h = 80

IsUpper_excl_Z(c) == c >= 65 /\ c < 90

\* buf[i] >= 'A' && buf[i] <= 'Z'
IsUpper(c) == c >= 65 /\ c <= 90

(***************************************************************************)
(* The escape buffer.  Both operators return the buffer state they leave.  *)
(***************************************************************************)
add_to_escape_buf_full(eb, el, c) ==
    IF el < EscapeBufSize
    THEN [escape_buf |-> [eb EXCEPT ![el] = c], escape_len |-> el + 1]
    ELSE [escape_buf |-> eb, escape_len |-> 0]

\* add_to_escape_buf(c) on buffer eb holding el bytes
add_to_escape_buf(eb, el, c) ==
    IF el < EscapeBufSize - 1
    THEN [escape_buf |-> [eb EXCEPT ![el] = c], escape_len |-> el + 1]
    ELSE [escape_buf |-> eb, escape_len |-> 0]

process_escape_sequence_swapped(eb, el) ==
    IF el >= 3 /\ eb[0] = ESC /\ eb[1] = 91
    THEN LET code == CASE eb[2] = 65 -> 82
                       [] eb[2] = 66 -> 81
                       [] eb[2] = 67 -> 80
                       [] eb[2] = 68 -> 79
                       [] OTHER -> 0
         IN IF code # 0
            THEN [hid_code |-> code, escape_len |-> 0]
            ELSE [hid_code |-> 0, escape_len |-> el]
    ELSE [hid_code |-> 0, escape_len |-> el]

\* process_escape_sequence() on buffer eb holding el bytes: the usage code
\* (0: no complete arrow sequence) and the length it leaves
process_escape_sequence(eb, el) ==
    IF el >= 3 /\ eb[0] = ESC /\ eb[1] = 91
    THEN LET code == CASE eb[2] = 65 -> 82
                       [] eb[2] = 66 -> 81
                       [] eb[2] = 67 -> 79
                       [] eb[2] = 68 -> 80
                       [] OTHER -> 0
         IN IF code # 0
            THEN [hid_code |-> code, escape_len |-> 0]
            ELSE [hid_code |-> 0, escape_len |-> el]
    ELSE [hid_code |-> 0, escape_len |-> el]

(***************************************************************************)
(* The key-state tracker.  Each operator returns the slots and the count.  *)
(***************************************************************************)
NoKeys == [s \in 0..(NumSlots - 1) |-> 0]

\* a variant of add_key that stores with a pre-increment: key_codes[++n]
add_key_preinc(kc, n, hid) ==
    IF n >= NumSlots
    THEN [key_codes |-> kc, num_keys_pressed |-> n]
    ELSE IF \E s \in 0..(n - 1) : kc[s] = hid
    THEN [key_codes |-> kc, num_keys_pressed |-> n]
    ELSE [key_codes |-> [s \in 0..(NumSlots - 1) |->
                            IF s = n + 1 THEN hid ELSE kc[s]],
          num_keys_pressed |-> n + 1]

\* a variant of add_key that, when full, overwrites the last slot
add_key_evict(kc, n, hid) ==
    IF \E s \in 0..(n - 1) : kc[s] = hid
    THEN [key_codes |-> kc, num_keys_pressed |-> n]
    ELSE IF n >= NumSlots
    THEN [key_codes |-> [kc EXCEPT ![NumSlots - 1] = hid], num_keys_pressed |-> n]
    ELSE [key_codes |-> [kc EXCEPT ![n] = hid], num_keys_pressed |-> n + 1]

\* add_key(hid) on slots kc holding n keys
add_key(kc, n, hid) ==
    IF n >= NumSlots
    THEN [key_codes |-> kc, num_keys_pressed |-> n]
    ELSE IF \E s \in 0..(n - 1) : kc[s] = hid
    THEN [key_codes |-> kc, num_keys_pressed |-> n]
    ELSE [key_codes |-> [kc EXCEPT ![n] = hid], num_keys_pressed |-> n + 1]

\* a variant of remove_key that leaves the vacated last slot as it was
remove_key_stale(kc, n, hid) ==
    IF \E s \in 0..(n - 1) : kc[s] = hid
    THEN LET first == CHOOSE s \in 0..(n - 1) :
                          /\ kc[s] = hid
                          /\ \A t \in 0..(s - 1) : kc[t] # hid
             shifted == [s \in 0..(NumSlots - 1) |->
                            IF s >= first /\ s < n - 1 THEN kc[s + 1] ELSE kc[s]]
         IN [key_codes |-> shifted, num_keys_pressed |-> n - 1]
    ELSE [key_codes |-> kc, num_keys_pressed |-> n]

\* remove_key(hid) on slots kc holding n keys
remove_key(kc, n, hid) ==
    IF \E s \in 0..(n - 1) : kc[s] = hid
    THEN LET first == CHOOSE s \in 0..(n - 1) :
                          /\ kc[s] = hid
                          /\ \A t \in 0..(s - 1) : kc[t] # hid
             shifted == [s \in 0..(NumSlots - 1) |->
                            IF s >= first /\ s < n - 1 THEN kc[s + 1] ELSE kc[s]]
         IN [key_codes |-> [shifted EXCEPT ![n - 1] = 0],
             num_keys_pressed |-> n - 1]
    ELSE [key_codes |-> kc, num_keys_pressed |-> n]

\* modifier_keys |= 0x02 and modifier_keys &= ~0x02 on an unsigned char
SetShift(m) == IF (m \div LeftShift) % 2 = 1 THEN m ELSE m + LeftShift

ClearShift_noop(m) == m

\* modifier_keys &= ~0x02
ClearShift(m) == IF (m \div LeftShift) % 2 = 1 THEN m - LeftShift ELSE m

(***************************************************************************)
(* The records written to the device.                                      *)
(***************************************************************************)
ZeroData == [b \in 0..(ReportSize - 1) |-> 0]

\* the report send_event() builds from the tracker
Report(m, kc, n) ==
    [b \in 0..(ReportSize - 1) |->
        IF b = 0 THEN m
        ELSE IF b = 1 THEN 0
        ELSE IF n > 0 /\ b - 2 < Min(n, NumSlots) THEN kc[b - 2]
        ELSE 0]

InputEvent(m, kc, n) ==
    [type |-> "UHID_INPUT", size |-> ReportSize, data |-> Report(m, kc, n)]

CreateEvent == [type |-> "UHID_CREATE", size |-> 0, data |-> ZeroData]

DestroyEvent == [type |-> "UHID_DESTROY", size |-> 0, data |-> ZeroData]

\* what write() may do with a record: all of it, part of it, or fail
WriteOutcomes == {"full", "short", "error"}

\* uhid_write's return value: 0, -EFAULT on a short write, -errno (EIO here)
uhid_write(w) == CASE w = "full" -> 0
                   [] w = "short" -> -14
                   [] w = "error" -> -5

(***************************************************************************)
(* Initial state: the statics as the C initialisers leave them, main()     *)
(* about to open the device.                                               *)
(***************************************************************************)
NoRevents == [p \in 0..1 |-> {}]

NoRoundTrip == [code |-> 0, fresh |-> FALSE, same |-> FALSE, before |-> 0, after |-> 0]

Statics ==
    /\ modifier_keys = 0
    /\ key_codes = NoKeys
    /\ num_keys_pressed = 0
    /\ escape_buf = [b \in 0..(EscapeBufSize - 1) |-> 0]
    /\ escape_len = 0

Init ==
    /\ pc = "open"
    /\ fd = "none"
    /\ exit_status = "running"
    /\ pfds = NoRevents
    /\ buf = <<>>
    /\ i = 0
    /\ hid_code = 0
    /\ Statics
    /\ log = <<>>
    /\ write_failed = FALSE
    /\ errmsg = ""
    /\ stdin_read = <<>>
    /\ presses = <<>>
    /\ pure = TRUE
    /\ rt = NoRoundTrip

harness == <<presses, pure, rt>>

tracker == <<modifier_keys, key_codes, num_keys_pressed>>

escape == <<escape_buf, escape_len>>

locals == <<buf, i, hid_code>>

(***************************************************************************)
(* main(): open, create, the dispatch loop, destroy.                       *)
(***************************************************************************)
\* argv[1] is "-h" or "--help": the usage line is printed and main()
\* returns EXIT_SUCCESS before open()
Usage ==
    /\ pc = "open"
    /\ pc' = "exit"
    /\ exit_status' = "EXIT_SUCCESS"
    /\ UNCHANGED <<fd, pfds, locals, tracker, escape, log, write_failed, errmsg,
                   stdin_read, harness>>

\* fd = open(path, O_RDWR | O_CLOEXEC)
Open ==
    /\ pc = "open"
    /\ \E ok \in BOOLEAN :
          IF ok
          THEN /\ fd' = "open"
               /\ pc' = "create"
               /\ UNCHANGED exit_status
          ELSE /\ fd' = "none"
               /\ pc' = "exit"
               /\ exit_status' = "EXIT_FAILURE"
    /\ UNCHANGED <<pfds, locals, tracker, escape, log, write_failed, errmsg,
                   stdin_read, harness>>

\* ret = create(fd); on failure close(fd) and return EXIT_FAILURE
Create_continue ==
    /\ pc = "create"
    /\ \E w \in WriteOutcomes :
          /\ log' = Append(log, CreateEvent)
          /\ IF uhid_write(w) # 0
             THEN /\ fd' = "closed"
                  /\ pc' = "poll"
                  /\ UNCHANGED exit_status
             ELSE /\ pc' = "poll"
                  /\ UNCHANGED <<fd, exit_status>>
    /\ UNCHANGED <<pfds, locals, tracker, escape, write_failed, errmsg,
                   stdin_read, harness>>

Create ==
    /\ pc = "create"
    /\ \E w \in WriteOutcomes :
          /\ log' = Append(log, CreateEvent)
          /\ IF uhid_write(w) # 0
             THEN /\ fd' = "closed"
                  /\ pc' = "exit"
                  /\ exit_status' = "EXIT_FAILURE"
             ELSE /\ pc' = "poll"
                  /\ UNCHANGED <<fd, exit_status>>
    /\ UNCHANGED <<pfds, locals, tracker, escape, write_failed, errmsg,
                   stdin_read, harness>>

Revents == SUBSET {"POLLIN", "POLLHUP"}

\* the tests of the loop body on the two revents, in the order of the code:
\* the handler to run next and the diagnostic printed, if any
Dispatch_pollin_first(r0, r1) ==
    IF "POLLIN" \in r0
    THEN [pc |-> "keyboard", msg |-> ""]
    ELSE IF "POLLIN" \in r1
    THEN [pc |-> "event", msg |-> ""]
    ELSE IF "POLLHUP" \in r0
    THEN [pc |-> "destroy", msg |-> "Received HUP on stdin"]
    ELSE IF "POLLHUP" \in r1
    THEN [pc |-> "destroy", msg |-> "Received HUP on uhid-cdev"]
    ELSE [pc |-> "poll", msg |-> ""]

Dispatch_device_first(r0, r1) ==
    IF "POLLHUP" \in r0
    THEN [pc |-> "destroy", msg |-> "Received HUP on stdin"]
    ELSE IF "POLLHUP" \in r1
    THEN [pc |-> "destroy", msg |-> "Received HUP on uhid-cdev"]
    ELSE IF "POLLIN" \in r1
    THEN [pc |-> "event", msg |-> ""]
    ELSE IF "POLLIN" \in r0
    THEN [pc |-> "keyboard", msg |-> ""]
    ELSE [pc |-> "poll", msg |-> ""]

Dispatch(r0, r1) ==
    IF "POLLHUP" \in r0
    THEN [pc |-> "destroy", msg |-> "Received HUP on stdin"]
    ELSE IF "POLLHUP" \in r1
    THEN [pc |-> "destroy", msg |-> "Received HUP on uhid-cdev"]
    ELSE IF "POLLIN" \in r0
    THEN [pc |-> "keyboard", msg |-> ""]
    ELSE IF "POLLIN" \in r1
    THEN [pc |-> "event", msg |-> ""]
    ELSE [pc |-> "poll", msg |-> ""]

\* one turn of the while loop up to the choice of the handler: poll() fills
\* pfds[].revents, which stay as filled until the loop comes round again
Poll ==
    /\ pc = "poll"
    /\ \/ /\ errmsg' = "Cannot poll for fds"
          /\ pc' = "destroy"
          /\ pfds' = NoRevents
       \/ \E r0 \in Revents, r1 \in Revents :
             LET d == Dispatch(r0, r1) IN
             /\ pc' = d.pc
             /\ errmsg' = IF d.msg = "" THEN errmsg ELSE d.msg
             /\ pfds' = IF d.pc = "poll"
                        THEN NoRevents
                        ELSE [p \in 0..1 |-> IF p = 0 THEN r0 ELSE r1]
    /\ UNCHANGED <<fd, exit_status, locals, tracker, escape, log, write_failed,
                   stdin_read, harness>>

(***************************************************************************)
(* keyboard(): the read, then one loop iteration per byte, split at the    *)
(* first send_event() so that the pressed state is a state of the model.   *)
(***************************************************************************)
Consumed == Len(Flatten(stdin_read))

\* ret = read(STDIN_FILENO, buf, sizeof(buf)), the chunk drawn from chunks
KeyboardReadOf(chunks) ==
    /\ pc = "keyboard"
    /\ \/ /\ errmsg' = "Read HUP on stdin"
          /\ pc' = "destroy"
          /\ pfds' = NoRevents
          /\ UNCHANGED <<locals, stdin_read>>
       \/ /\ errmsg' = "Cannot read stdin"
          /\ pc' = "destroy"
          /\ pfds' = NoRevents
          /\ UNCHANGED <<locals, stdin_read>>
       \/ \E chunk \in chunks :
             /\ buf' = chunk
             /\ i' = 1
             /\ stdin_read' = Append(stdin_read, chunk)
             /\ pc' = "kbd_loop"
             /\ UNCHANGED <<hid_code, errmsg, pfds>>
    /\ UNCHANGED <<fd, exit_status, tracker, escape, log, write_failed, harness>>

KeyboardRead == KeyboardReadOf(ChunksUpTo(MaxInput - Consumed))

\* a variant of Translate that buffers every ESC, whatever follows it
Translate_nolookahead(eb, el, c, next) ==
    IF el > 0
    THEN LET added == add_to_escape_buf(eb, el, c)
             res == process_escape_sequence(added.escape_buf, added.escape_len)
         IN [escape_buf |-> added.escape_buf, escape_len |-> res.escape_len,
             hid_code |-> res.hid_code]
    ELSE IF c = ESC
    THEN LET added == add_to_escape_buf(eb, el, c)
         IN [escape_buf |-> added.escape_buf,
             escape_len |-> added.escape_len, hid_code |-> 0]
    ELSE [escape_buf |-> eb, escape_len |-> el, hid_code |-> ascii_to_hid(c)]

\* where one loop iteration on byte c leaves the escape buffer and which
\* usage code it resolves (0: the iteration ends in a continue)
Translate(eb, el, c, next) ==
    IF el > 0
    THEN LET added == add_to_escape_buf(eb, el, c)
             res == process_escape_sequence(added.escape_buf, added.escape_len)
         IN [escape_buf |-> added.escape_buf, escape_len |-> res.escape_len,
             hid_code |-> res.hid_code]
    ELSE IF c = ESC
    THEN IF next = 91
         THEN LET added == add_to_escape_buf(eb, el, c)
              IN [escape_buf |-> added.escape_buf,
                  escape_len |-> added.escape_len, hid_code |-> 0]
         ELSE [escape_buf |-> eb, escape_len |-> el, hid_code |-> ascii_to_hid(c)]
    ELSE [escape_buf |-> eb, escape_len |-> el, hid_code |-> ascii_to_hid(c)]

\* the shift test of keyboard(): an uppercase source byte, not an arrow
NeedsShift_arrows(c, h) == IsUpper(c)

NeedsShift(c, h) == IsUpper(c) /\ ~IsArrow(h)

\* send_event(fd) under write() outcome w
SendEvent(m, kc, n, w) ==
    /\ log' = Append(log, InputEvent(m, kc, n))
    /\ write_failed' = (write_failed \/ uhid_write(w) # 0)

\* one iteration of the for loop up to and including the press report
KbdByte ==
    /\ pc = "kbd_loop"
    /\ i <= Len(buf)
    /\ LET c == buf[i]
           next == IF i + 1 <= Len(buf) THEN buf[i + 1] ELSE -1
           tr == Translate(escape_buf, escape_len, c, next)
       IN /\ escape_buf' = tr.escape_buf
          /\ escape_len' = tr.escape_len
          /\ IF tr.hid_code = 0
             THEN /\ i' = i + 1
                  /\ UNCHANGED <<pc, hid_code, tracker, log, write_failed>>
             ELSE LET m == IF NeedsShift(c, tr.hid_code)
                           THEN SetShift(modifier_keys) ELSE modifier_keys
                      t == add_key(key_codes, num_keys_pressed, tr.hid_code)
                  IN /\ hid_code' = tr.hid_code
                     /\ modifier_keys' = m
                     /\ key_codes' = t.key_codes
                     /\ num_keys_pressed' = t.num_keys_pressed
                     /\ \E w \in WriteOutcomes :
                           SendEvent(m, t.key_codes, t.num_keys_pressed, w)
                     /\ pc' = "kbd_release"
                     /\ UNCHANGED i
    /\ UNCHANGED <<fd, exit_status, pfds, buf, errmsg, stdin_read, harness>>

\* a variant of KbdRelease that sends the second report without remove_key
KbdRelease_noremove ==
    /\ pc = "kbd_release"
    /\ LET c == buf[i]
           m == IF NeedsShift(c, hid_code)
                THEN ClearShift(modifier_keys) ELSE modifier_keys
       IN /\ modifier_keys' = m
          /\ \E w \in WriteOutcomes :
                SendEvent(m, key_codes, num_keys_pressed, w)
    /\ hid_code' = 0
    /\ i' = i + 1
    /\ pc' = "kbd_loop"
    /\ UNCHANGED <<fd, exit_status, pfds, buf, key_codes, num_keys_pressed,
                   escape, errmsg, stdin_read, harness>>

\* the rest of the iteration: the release report
KbdRelease ==
    /\ pc = "kbd_release"
    /\ LET c == buf[i]
           t == remove_key(key_codes, num_keys_pressed, hid_code)
           m == IF NeedsShift(c, hid_code)
                THEN ClearShift(modifier_keys) ELSE modifier_keys
       IN /\ key_codes' = t.key_codes
          /\ num_keys_pressed' = t.num_keys_pressed
          /\ modifier_keys' = m
          /\ \E w \in WriteOutcomes :
                SendEvent(m, t.key_codes, t.num_keys_pressed, w)
    /\ hid_code' = 0
    /\ i' = i + 1
    /\ pc' = "kbd_loop"
    /\ UNCHANGED <<fd, exit_status, pfds, buf, escape, errmsg, stdin_read, harness>>

\* the loop is over: keyboard() returns 0 and main() tests pfds[1]
KbdReturn ==
    /\ pc = "kbd_loop"
    /\ i > Len(buf)
    /\ buf' = <<>>
    /\ i' = 0
    /\ IF "POLLIN" \in pfds[1]
       THEN /\ pc' = "event"
            /\ UNCHANGED pfds
       ELSE /\ pc' = "poll"
            /\ pfds' = NoRevents
    /\ UNCHANGED <<fd, exit_status, hid_code, tracker, escape, log, write_failed,
                   errmsg, stdin_read, harness>>

(***************************************************************************)
(* event(): read one record from the device.                               *)
(***************************************************************************)
EventTypes == {"UHID_START", "UHID_STOP", "UHID_OPEN", "UHID_CLOSE",
               "UHID_OUTPUT", "UHID_OUTPUT_EV", "other"}

\* what read() on the device may do: 0 bytes, fail, part of a record, a record
ReadOutcomes == {"zero", "error", "short", "full"}

\* a variant of event_ret that takes a read of 0 bytes for nothing to do
event_ret_zero_ok(r) == CASE r = "zero" -> 0
                          [] r = "error" -> -5
                          [] r = "short" -> -14
                          [] r = "full" -> 0

\* event()'s return value: -EFAULT on 0 bytes or a short read, -errno (EIO
\* here) on a failed read, 0 after a whole record whatever its type
event_ret(r) == CASE r = "zero" -> -14
                  [] r = "error" -> -5
                  [] r = "short" -> -14
                  [] r = "full" -> 0

\* the diagnostic event() prints for a read that is not a whole record
event_msg(r) == CASE r = "zero" -> "Read HUP on uhid-cdev"
                  [] r = "error" -> "Cannot read uhid-cdev"
                  [] r = "short" -> "Invalid size read from uhid-dev"

\* ret = event(fd); if (ret) break
Event ==
    /\ pc = "event"
    /\ \E r \in ReadOutcomes, type \in EventTypes :
          /\ errmsg' = IF r = "full" THEN errmsg ELSE event_msg(r)
          /\ pc' = IF event_ret(r) # 0 THEN "destroy" ELSE "poll"
    /\ pfds' = NoRevents
    /\ UNCHANGED <<fd, exit_status, locals, tracker, escape, log, write_failed,
                   stdin_read, harness>>

\* a variant of Destroy that leaves without the Destroy write
Destroy_skipped ==
    /\ pc = "destroy"
    /\ pc' = "exit"
    /\ exit_status' = "EXIT_SUCCESS"
    /\ UNCHANGED <<fd, pfds, locals, tracker, escape, log, write_failed, errmsg,
                   stdin_read, harness>>

\* destroy(fd); return EXIT_SUCCESS
Destroy ==
    /\ pc = "destroy"
    /\ \E w \in WriteOutcomes :
          /\ log' = Append(log, DestroyEvent)
          /\ uhid_write(w) \in Int
    /\ pc' = "exit"
    /\ exit_status' = "EXIT_SUCCESS"
    /\ UNCHANGED <<fd, pfds, locals, tracker, escape, write_failed, errmsg,
                   stdin_read, harness>>

Next ==
    \/ Usage
    \/ Open
    \/ Create
    \/ Poll
    \/ KeyboardRead
    \/ KbdByte
    \/ KbdRelease
    \/ KbdReturn
    \/ Event
    \/ Destroy

Spec == Init /\ [][Next]_vars

(***************************************************************************)
(* The tracker on its own: add_key, remove_key and clear_keys applied in   *)
(* any order to the codes 1..MaxCode, from the empty tracker.  presses and *)
(* pure record a run of presses of distinct codes since the last clear; rt *)
(* records what add_key(code) followed at once by remove_key(code) did to  *)
(* the tracker.  No report is written here: these are the two functions    *)
(* called back to back, not the loop body of keyboard(), which KbdByte and *)
(* KbdRelease model with its two send_event() calls.                       *)
(***************************************************************************)
TrackerCodes == 1..MaxCode

Pressed(kc, n) == {kc[s] : s \in 0..(n - 1)}

InitTracker ==
    /\ pc = "tracker"
    /\ fd = "none"
    /\ exit_status = "running"
    /\ pfds = NoRevents
    /\ buf = <<>>
    /\ i = 0
    /\ hid_code = 0
    /\ Statics
    /\ log = <<>>
    /\ write_failed = FALSE
    /\ errmsg = ""
    /\ stdin_read = <<>>
    /\ presses = <<>>
    /\ pure = TRUE
    /\ rt = NoRoundTrip

program == <<pc, fd, exit_status, pfds, locals, escape, log, write_failed,
             errmsg, stdin_read>>

\* add_key(code)
TPress(code) ==
    /\ pc = "tracker"
    /\ LET t == add_key(key_codes, num_keys_pressed, code)
       IN /\ key_codes' = t.key_codes
          /\ num_keys_pressed' = t.num_keys_pressed
    /\ IF pure /\ \A k \in 1..Len(presses) : presses[k] # code
       THEN /\ presses' = Append(presses, code)
            /\ pure' = TRUE
       ELSE /\ presses' = <<>>
            /\ pure' = FALSE
    /\ rt' = NoRoundTrip
    /\ UNCHANGED <<program, modifier_keys>>

\* remove_key(code)
TRelease(code) ==
    /\ pc = "tracker"
    /\ LET t == remove_key(key_codes, num_keys_pressed, code)
       IN /\ key_codes' = t.key_codes
          /\ num_keys_pressed' = t.num_keys_pressed
    /\ presses' = <<>>
    /\ pure' = FALSE
    /\ rt' = NoRoundTrip
    /\ UNCHANGED <<program, modifier_keys>>

\* the function add_key applied to code, then the function remove_key
\* applied to the same code
TPressRelease(code) ==
    /\ pc = "tracker"
    /\ LET t == add_key(key_codes, num_keys_pressed, code)
           u == remove_key(t.key_codes, t.num_keys_pressed, code)
       IN /\ key_codes' = u.key_codes
          /\ num_keys_pressed' = u.num_keys_pressed
          /\ rt' = [code |-> code,
                    fresh |-> code \notin Pressed(key_codes, num_keys_pressed),
                    same |-> /\ u.key_codes = key_codes
                             /\ u.num_keys_pressed = num_keys_pressed,
                    before |-> num_keys_pressed,
                    after |-> u.num_keys_pressed]
    /\ presses' = <<>>
    /\ pure' = FALSE
    /\ UNCHANGED <<program, modifier_keys>>

\* clear_keys()
TClear ==
    /\ pc = "tracker"
    /\ key_codes' = NoKeys
    /\ num_keys_pressed' = 0
    /\ modifier_keys' = 0
    /\ presses' = <<>>
    /\ pure' = TRUE
    /\ rt' = NoRoundTrip
    /\ UNCHANGED program

NextTracker ==
    \/ \E code \in TrackerCodes : TPress(code)
    \/ \E code \in TrackerCodes : TRelease(code)
    \/ \E code \in TrackerCodes : TPressRelease(code)
    \/ TClear

SpecTracker == InitTracker /\ [][NextTracker]_vars

(***************************************************************************)
(* The program typed at one key per read: every read returns one byte of   *)
(* 7-bit ASCII, or one whole arrow sequence ESC '[' 'A'..'D', alone or     *)
(* followed by 'q' in the same chunk.  MaxReads bounds the number of       *)
(* chunks of a run.                                                        *)
(***************************************************************************)
MaxReads == 1

Ascii == 0..127

ArrowFinals == {65, 66, 67, 68}

KeyChunks == {<<c>> : c \in Ascii}
             \cup {<<27, 91, x>> : x \in ArrowFinals}
             \cup {<<27, 91, x, 113>> : x \in ArrowFinals}

KeyboardReadKeys ==
    KeyboardReadOf(IF Len(stdin_read) < MaxReads THEN KeyChunks ELSE {})

NextKeys ==
    \/ Usage
    \/ Open
    \/ Create
    \/ Poll
    \/ KeyboardReadKeys
    \/ KbdByte
    \/ KbdRelease
    \/ KbdReturn
    \/ Event
    \/ Destroy

SpecKeys == Init /\ [][NextKeys]_vars

(***************************************************************************)
(* The translator left in the Escape state: the program has created the    *)
(* device, read ESC '[' X in one chunk with X none of 'A'..'D', and is     *)
(* back in poll().  From there stdin is the only descriptor that becomes   *)
(* ready and every read succeeds; the chunks, of one to three bytes each,   *)
(* are at most MaxEscInput further bytes out of ESC, '[' and 'A'.          *)
(***************************************************************************)
MaxEscInput == 6

EscBytes == {27, 91, 65}

\* X: 'q'
EscThird == {113}

EscChunksUpTo(n) == UNION {[1..k -> EscBytes] : k \in 1..Min(n, 3)}

InitEsc ==
    \E x \in EscThird :
       /\ pc = "poll"
       /\ fd = "open"
       /\ exit_status = "running"
       /\ pfds = NoRevents
       /\ buf = <<>>
       /\ i = 0
       /\ hid_code = 0
       /\ modifier_keys = 0
       /\ key_codes = NoKeys
       /\ num_keys_pressed = 0
       /\ escape_buf = [b \in 0..(EscapeBufSize - 1) |->
                          IF b = 0 THEN 27 ELSE IF b = 1 THEN 91
                          ELSE IF b = 2 THEN x ELSE 0]
       /\ escape_len = 3
       /\ log = <<CreateEvent>>
       /\ write_failed = FALSE
       /\ errmsg = ""
       /\ stdin_read = << <<27, 91, x>> >>
       /\ presses = <<>>
       /\ pure = TRUE
       /\ rt = NoRoundTrip

\* poll() reports stdin readable and nothing else
PollStdin ==
    /\ Poll
    /\ pfds' = [p \in 0..1 |-> IF p = 0 THEN {"POLLIN"} ELSE {}]

\* read() returns a chunk
KeyboardReadEsc ==
    /\ KeyboardReadOf(EscChunksUpTo(MaxEscInput + 3 - Consumed))
    /\ pc' = "kbd_loop"

NextEsc ==
    \/ PollStdin
    \/ KeyboardReadEsc
    \/ KbdByte
    \/ KbdRelease
    \/ KbdReturn

SpecEsc == InitEsc /\ [][NextEsc]_vars

(***************************************************************************)
(* Properties.                                                             *)
(***************************************************************************)
IsInput(e) == e.type = "UHID_INPUT"

\* the reports of the Input records written so far, in order
Reports == LET ins == SelectSeq(log, IsInput)
           IN [k \in 1..Len(ins) |-> ins[k].data]

\* the 8-byte report with modifier byte m and the single key k in byte 2
Rep(m, k) == [b \in 0..7 |-> IF b = 0 THEN m ELSE IF b = 2 THEN k ELSE 0]

\* keyboard() is not running: every chunk read so far is fully translated
Idle == pc \in {"open", "create", "poll", "keyboard", "event", "destroy", "exit"}

UpArrow == <<27, 91, 65>>

\* C1 (as stated): however ESC '[' 'A' is split into chunks, the device is
\* written exactly the press report of usage 0x52 and one release report,
\* and nothing for the prefixes ESC and ESC '['.
C1_AnySplitOnePair ==
    Idle =>
        /\ Flatten(stdin_read) = UpArrow => Reports = <<Rep(0, 82), Rep(0, 0)>>
        /\ Flatten(stdin_read) \in {<<27>>, <<27, 91>>} => Reports = <<>>

\* C1 (amended): the splits that keep ESC and '[' in one chunk give exactly
\* the 0x52 press report and the release report, with no report while only
\* ESC or ESC '[' has been translated; an ESC that ends its chunk is a
\* standalone Escape key, and '[' and 'A' then follow as ordinary keys.
C1_UpArrowSplits ==
    /\ (Idle /\ stdin_read \in {<<UpArrow>>, <<<<27, 91>>, <<65>>>>})
          => Reports = <<Rep(0, 82), Rep(0, 0)>>
    /\ (Idle /\ stdin_read = <<<<27, 91>>>>) => Reports = <<>>
    /\ (pc = "kbd_loop" /\ stdin_read = <<UpArrow>> /\ i <= 3) => Reports = <<>>
    /\ (pc = "kbd_loop" /\ stdin_read = <<<<27, 91>>, <<65>>>> /\ i = 1)
          => Reports = <<>>
    /\ (Idle /\ stdin_read = <<<<27>>>>) => Reports = <<Rep(0, 41), Rep(0, 0)>>
    /\ (Idle /\ stdin_read \in {<<<<27>>, <<91, 65>>>>, <<<<27>>, <<91>>, <<65>>>>})
          => Reports = <<Rep(0, 41), Rep(0, 0), Rep(0, 47), Rep(0, 0),
                         Rep(2, 4), Rep(0, 0)>>

\* ESC '[' arrived in one chunk and 'A' in the next: one pair was written
C1_Witness ==
    /\ Idle
    /\ stdin_read = <<<<27, 91>>, <<65>>>>
    /\ Reports = <<Rep(0, 82), Rep(0, 0)>>

\* C2 (as stated): with ESC '[' buffered, a third byte other than 'A'..'D'
\* leaves the buffer empty and writes no report.
C2_OtherThirdByteResets ==
    [][(/\ pc = "kbd_loop"
        /\ i <= Len(buf)
        /\ escape_len = 2
        /\ escape_buf[0] = 27
        /\ escape_buf[1] = 91
        /\ buf[i] \notin {65, 66, 67, 68})
       => (escape_len' = 0 /\ log' = log)]_vars

\* C3 (as stated): once a write of an Input record has failed or was short,
\* no further Input record is written and no further byte is translated.
C3_InputWriteFailureFatal ==
    [][write_failed =>
          /\ SelectSeq(log', IsInput) = SelectSeq(log, IsInput)
          /\ ~KbdByte]_vars

\* C4 (as stated): every exit with the handle opened has written Destroy.
C4_DestroyOnEveryExit ==
    (pc = "exit" /\ fd # "none") => \E k \in 1..Len(log) : log[k] = DestroyEvent

\* C4 (amended): every exit after a successful Create write, whatever broke
\* the loop, has Destroy as its last and only Destroy write; a failed Create
\* write closes the handle and exits with failure status, with no Destroy.
C4_DestroyAfterCreate ==
    /\ (pc = "exit" /\ fd = "open")
          => /\ Len(log) >= 2
             /\ log[1] = CreateEvent
             /\ log[Len(log)] = DestroyEvent
             /\ \A k \in 1..(Len(log) - 1) : log[k] # DestroyEvent
    /\ (pc = "exit" /\ fd = "closed")
          => /\ log = <<CreateEvent>>
             /\ exit_status = "EXIT_FAILURE"
    /\ (pc = "exit" /\ fd = "none") => log = <<>>

\* an exit through a failed poll(), with Destroy written last
C4_Witness ==
    /\ pc = "exit"
    /\ errmsg = "Cannot poll for fds"
    /\ log[Len(log)] = DestroyEvent

ReadHup == {"Read HUP on stdin", "Read HUP on uhid-cdev"}

\* C5: from a read of 0 bytes on stdin or on the device on, the loop is
\* over, no Input record is written any more, exactly one Destroy write
\* follows and the exit status is success.
C5_ZeroReadEndsLoop ==
    [][errmsg' \in ReadHup =>
          /\ pc' \in {"destroy", "exit"}
          /\ SelectSeq(log', IsInput) = SelectSeq(log, IsInput)
          /\ pc' = "destroy" => \A k \in 1..Len(log') : log'[k] # DestroyEvent
          /\ pc' = "exit" =>
                /\ exit_status' = "EXIT_SUCCESS"
                /\ log'[Len(log')] = DestroyEvent
                /\ \A k \in 1..(Len(log') - 1) : log'[k] # DestroyEvent]_vars

\* the device read returned 0 bytes after a key had been sent
C5_Witness ==
    /\ pc = "exit"
    /\ errmsg = "Read HUP on uhid-cdev"
    /\ Len(Reports) >= 2
    /\ exit_status = "EXIT_SUCCESS"

\* C6 (as stated): once the byte 'q' of the chunk has been taken by the
\* translator, the dispatch loop is over (the device is being destroyed).
C6_QuitOnQ ==
    \A k \in 1..Len(buf) :
        (buf[k] = 113 /\ (k < i \/ (k = i /\ pc = "kbd_release")))
            => pc \in {"destroy", "exit"}

\* C7 (as stated): press(code) then release(code) gives back the tracker
\* it started from, whatever the state and the code.
C7_RoundTripAlways == rt.code # 0 => rt.same

\* C7 (amended): press(code) then release(code) gives back the same count
\* and the same six slots when code was not pressed before, a full tracker
\* included; when code was already pressed, the pair removes it.
C7_RoundTripFresh ==
    rt.code # 0 =>
        /\ rt.fresh => rt.same
        /\ ~rt.fresh =>
              /\ ~rt.same
              /\ rt.after = rt.before - 1
              /\ rt.code \notin Pressed(key_codes, num_keys_pressed)

\* a code was pressed into the last free slot and released again
C7_Witness ==
    /\ rt.code # 0
    /\ rt.fresh
    /\ rt.same
    /\ num_keys_pressed = NumSlots - 1

\* C8: after presses of distinct codes and no release, the tracker holds the
\* first six of them in the order pressed, the other slots 0; the count is
\* the number of presses up to 6 and stays 6 from the 7th press on.
C8_SixKeyCap ==
    pure =>
        /\ num_keys_pressed = Min(Len(presses), 6)
        /\ \A s \in 0..5 :
              key_codes[s] = IF s < Len(presses) THEN presses[s + 1] ELSE 0

\* seven distinct codes were pressed
C8_Witness ==
    /\ pure
    /\ Len(presses) = 7
    /\ num_keys_pressed = 6

\* C9: the pressed keys are at most 6, distinct and non-zero, and the slots
\* from num_keys_pressed on are 0.
C9_TrackerInvariant ==
    /\ num_keys_pressed \in 0..6
    /\ \A s \in 0..(num_keys_pressed - 1) : key_codes[s] # 0
    /\ \A s \in 0..(num_keys_pressed - 1) :
          \A t \in 0..(num_keys_pressed - 1) :
              s # t => key_codes[s] # key_codes[t]
    /\ \A s \in num_keys_pressed..5 : key_codes[s] = 0

\* a key is held between its press report and its release report
C9_Witness ==
    /\ pc = "kbd_release"
    /\ num_keys_pressed = 1
    /\ key_codes[0] = hid_code
    /\ hid_code # 0

\* the usage codes the bytes from..upto of chunk resolve to, in order, the
\* escape buffer being eb, el before byte from
RECURSIVE ChunkCodes(_, _, _, _, _)
ChunkCodes(chunk, from, upto, eb, el) ==
    IF from > upto
    THEN [codes |-> <<>>, escape_buf |-> eb, escape_len |-> el]
    ELSE LET next == IF from + 1 <= Len(chunk) THEN chunk[from + 1] ELSE -1
             tr == Translate(eb, el, chunk[from], next)
             rest == ChunkCodes(chunk, from + 1, upto, tr.escape_buf, tr.escape_len)
         IN [rest EXCEPT !.codes =
                IF tr.hid_code = 0 THEN @ ELSE <<tr.hid_code>> \o @]

\* the same over the first n chunks read, the last of them up to byte upto
RECURSIVE ReadCodes(_, _)
ReadCodes(n, upto) ==
    IF n = 0
    THEN [codes |-> <<>>, escape_buf |-> [b \in 0..7 |-> 0], escape_len |-> 0]
    ELSE LET before == ReadCodes(n - 1, IF n = 1 THEN 0 ELSE Len(stdin_read[n - 1]))
             here == ChunkCodes(stdin_read[n], 1, upto,
                                before.escape_buf, before.escape_len)
         IN [here EXCEPT !.codes = before.codes \o @]

\* the codes of the bytes keyboard() has resolved so far
Resolved ==
    LET n == Len(stdin_read)
        upto == IF n = 0 THEN 0
                ELSE IF pc = "kbd_loop" THEN i - 1
                ELSE IF pc = "kbd_release" THEN i
                ELSE Len(stdin_read[n])
    IN ReadCodes(n, upto).codes

\* C10: the Input records are exactly, for each byte resolved to a usage
\* code in turn, a press report with bytes 1..7 = (0, code, 0, 0, 0, 0, 0)
\* then a release report with bytes 1..7 all 0, each of length 8, with no
\* other record between them; 'q' gives 00 00 14 .. then 00 00 00 ..
C10_PressReleasePairs ==
    LET reports == Reports
        codes == Resolved
    IN /\ Len(reports) = 2 * Len(codes) - (IF pc = "kbd_release" THEN 1 ELSE 0)
       /\ \A k \in 1..Len(reports) :
             /\ IsInput(log[k + 1])
             /\ log[k + 1].size = 8
             /\ DOMAIN reports[k] = 0..7
             /\ \A b \in 1..7 :
                   reports[k][b] = IF b = 2 /\ k % 2 = 1
                                   THEN codes[(k + 1) \div 2] ELSE 0
       /\ (Idle /\ stdin_read = <<<<113>>>>) => reports = <<Rep(0, 20), Rep(0, 0)>>

\* 'q' was read and translated
C10_Witness ==
    /\ Idle
    /\ stdin_read = <<<<113>>>>
    /\ Reports = <<Rep(0, 20), Rep(0, 0)>>


(***************************************************************************)
(* Letters, arrows and the other keys, one key per read (SpecKeys).        *)
(***************************************************************************)
IsLetter(c) == (c >= 65 /\ c <= 90) \/ (c >= 97 /\ c <= 122)

LetterIndex(c) == IF c >= 97 THEN c - 97 ELSE c - 65

\* the chunk of the latest read, <<>> before the first read
LastChunk == IF stdin_read = <<>> THEN <<>> ELSE stdin_read[Len(stdin_read)]

\* the last n reports written, <<>> when fewer were written
LastReports(n) ==
    LET r == Reports
    IN IF Len(r) < n THEN <<>> ELSE SubSeq(r, Len(r) - n + 1, Len(r))

\* C11: every letter maps to usage 0x04 + its index in the alphabet, in lower
\* and in upper case alike; typed on its own, a letter's press report carries
\* modifier 0x02 exactly when the letter is upper case, and its release
\* report carries modifier 0x00 in both cases.
C11_LetterCase ==
    /\ \A k \in 0..25 : ascii_to_hid(97 + k) = 4 + k /\ ascii_to_hid(65 + k) = 4 + k
    /\ LET chunk == LastChunk
       IN (Len(chunk) = 1 /\ IsLetter(chunk[1])) =>
             LET c == chunk[1]
                 press == Rep(IF c <= 90 THEN 2 ELSE 0, 4 + LetterIndex(c))
             IN /\ pc = "kbd_release" => LastReports(1) = <<press>>
                /\ (Idle \/ (pc = "kbd_loop" /\ i = 2)) =>
                      LastReports(2) = <<press, Rep(0, 0)>>

\* 'Z' typed and released: usage 0x1d with Left Shift, then the empty report
C11_Witness ==
    /\ pc = "poll"
    /\ stdin_read = << <<90>> >>
    /\ Reports = <<Rep(2, 29), Rep(0, 0)>>

(***************************************************************************)
(* The order of the handlers inside one wakeup.                            *)
(***************************************************************************)
BothReadable(f) ==
    /\ f[0] = {"POLLIN"}
    /\ f[1] = {"POLLIN"}

\* C12: when one wakeup reports stdin and the device both readable without
\* hang-up, keyboard() runs first; event() is entered in that wakeup only
\* from the end of keyboard()'s loop, with the whole chunk translated and
\* every report of it written; a failed stdin read leads to the teardown
\* without the device being read.
C12_StdinBeforeDevice ==
    [][/\ (pc = "poll" /\ BothReadable(pfds')) =>
             /\ pc' = "keyboard"
             /\ log' = log
       /\ (pc # "event" /\ pc' = "event" /\ "POLLIN" \in pfds'[0]) =>
             /\ pc = "kbd_loop"
             /\ i > Len(buf)
             /\ BothReadable(pfds)
             /\ stdin_read' = stdin_read
             /\ log' = log
             /\ Len(Reports) = 2 * Len(Resolved)
       /\ (pc = "keyboard" /\ pc' # "kbd_loop") =>
             /\ pc' = "destroy"
             /\ stdin_read' = stdin_read
             /\ log' = log
      ]_vars

\* the device is about to be read after a chunk that gave reports
C12_Witness ==
    /\ pc = "event"
    /\ BothReadable(pfds)
    /\ stdin_read # <<>>
    /\ Len(Reports) >= 2

(***************************************************************************)
(* The four arrow sequences (SpecKeys).                                    *)
(***************************************************************************)
\* Up, Down, Right, Left for the final bytes 'A', 'B', 'C', 'D'
ArrowUsage(x) == CASE x = 65 -> 82
                   [] x = 66 -> 81
                   [] x = 67 -> 79
                   [] x = 68 -> 80

\* C13: with ESC '[' buffered, a third byte 'A', 'B', 'C', 'D' resolves to
\* usage 0x52, 0x51, 0x4f, 0x50 respectively and leaves the escape buffer at
\* length 0, so that the byte after it is translated in the Normal state
\* ('q' following in the same chunk is typed as 0x14).
C13_ArrowResolves ==
    LET chunk == LastChunk
    IN (Len(chunk) >= 3 /\ chunk[1] = 27 /\ chunk[2] = 91
                        /\ chunk[3] \in ArrowFinals) =>
          LET arrow == Rep(0, ArrowUsage(chunk[3]))
          IN /\ (pc = "kbd_loop" /\ i = 3) => escape_len = 2
             /\ (pc = "kbd_release" /\ i = 3) =>
                   /\ hid_code = ArrowUsage(chunk[3])
                   /\ escape_len = 0
                   /\ LastReports(1) = <<arrow>>
             /\ (pc = "kbd_loop" /\ i = 4) =>
                   /\ escape_len = 0
                   /\ LastReports(2) = <<arrow, Rep(0, 0)>>
             /\ (Idle /\ Len(chunk) = 3) =>
                   /\ escape_len = 0
                   /\ LastReports(2) = <<arrow, Rep(0, 0)>>
             /\ (Idle /\ Len(chunk) = 4) =>
                   /\ escape_len = 0
                   /\ LastReports(4) =
                         <<arrow, Rep(0, 0), Rep(0, ascii_to_hid(chunk[4])), Rep(0, 0)>>

\* ESC '[' 'D' 'q' typed: Left, then q
C13_Witness ==
    /\ pc = "poll"
    /\ stdin_read = << <<27, 91, 68, 113>> >>
    /\ escape_len = 0
    /\ Reports = <<Rep(0, 80), Rep(0, 0), Rep(0, 20), Rep(0, 0)>>

(***************************************************************************)
(* The Left Shift bit (SpecKeys).                                          *)
(***************************************************************************)
LetterUsages == 4..29

\* C14: Left Shift is set in no report of an arrow key or of a byte that is
\* not a letter: a report with a modifier other than 0x00 is a press report
\* of modifier 0x02 for an upper-case source byte resolved to a letter usage,
\* and a key typed on its own that is an arrow sequence or a non-letter
\* byte has modifier 0x00 in both of its reports.
C14_ShiftOnlyForUpperCase ==
    LET reports == Reports
        chunk == LastChunk
    IN /\ \A k \in 1..Len(reports) :
             /\ reports[k][0] \in {0, 2}
             /\ reports[k][0] = 2 =>
                   /\ k % 2 = 1
                   /\ reports[k][2] \in LetterUsages
       /\ pc = "kbd_release" =>
             (modifier_keys # 0 => IsUpper(buf[i]) /\ ~IsArrow(hid_code))
       /\ pc # "kbd_release" => modifier_keys = 0
       /\ (pc = "kbd_release" /\ (IsArrow(hid_code) \/ ~IsLetter(buf[i]))) =>
             /\ modifier_keys = 0
             /\ LastReports(1)[1][0] = 0
       /\ (Idle /\ Len(stdin_read) = 1
                /\ (Len(chunk) > 1 \/ ~IsLetter(chunk[1]))) =>
             \A k \in 1..Len(reports) : reports[k][0] = 0

\* Up typed on its own: both reports without modifier
C14_Witness ==
    /\ pc = "poll"
    /\ stdin_read = << <<27, 91, 65>> >>
    /\ modifier_keys = 0
    /\ Reports = <<Rep(0, 82), Rep(0, 0)>>

(***************************************************************************)
(* ESC in the Normal state.                                                *)
(***************************************************************************)
\* the step writes exactly one record, the Input report of modifier m, key k
WritesReport(m, k) ==
    /\ Len(log') = Len(log) + 1
    /\ SubSeq(log', 1, Len(log)) = log
    /\ IsInput(log'[Len(log')])
    /\ log'[Len(log')].data = Rep(m, k)

\* C15: in the Normal state an ESC that is not followed by '[' inside the
\* same chunk, the last byte of a chunk included, is typed at once as the
\* Escape key: one press report of usage 0x29, one release report, the
\* escape buffer left empty; an ESC followed by '[' in the same chunk writes
\* no report and is put in the escape buffer.
C15_StandaloneEscape ==
    [][/\ (pc = "kbd_loop" /\ i <= Len(buf) /\ escape_len = 0 /\ buf[i] = 27) =>
             IF i + 1 <= Len(buf) /\ buf[i + 1] = 91
             THEN /\ pc' = "kbd_loop"
                  /\ i' = i + 1
                  /\ log' = log
                  /\ escape_len' = 1
                  /\ escape_buf'[0] = 27
             ELSE /\ pc' = "kbd_release"
                  /\ i' = i
                  /\ hid_code' = 41
                  /\ escape_len' = 0
                  /\ WritesReport(0, 41)
       /\ (pc = "kbd_release" /\ escape_len = 0 /\ buf[i] = 27) =>
             /\ pc' = "kbd_loop"
             /\ i' = i + 1
             /\ escape_len' = 0
             /\ WritesReport(0, 0)
      ]_vars

\* ESC ended one chunk and was typed; ESC '[' of the next chunk is buffered
C15_Witness ==
    /\ pc = "poll"
    /\ stdin_read = << <<27>>, <<27, 91>> >>
    /\ escape_len = 2
    /\ Reports = <<Rep(0, 41), Rep(0, 0)>>

(***************************************************************************)
(* The escape buffer when no arrow resolves (SpecEsc).                     *)
(***************************************************************************)
\* keyboard() is about to hand buf[i] to add_to_escape_buf()
InEscape == pc = "kbd_loop" /\ i <= Len(buf) /\ escape_len > 0

\* the step stored buf[i] at the end of the escape buffer; the length grew
\* by one unless an arrow resolved
Appended ==
    /\ escape_buf' = [escape_buf EXCEPT ![escape_len] = buf[i]]
    /\ \/ escape_len' = escape_len + 1 /\ pc' = "kbd_loop" /\ log' = log
       \/ escape_len' = 0 /\ pc' = "kbd_release" /\ IsArrow(hid_code')

\* C16: the escape buffer has capacity 8: in the escape state a byte is
\* appended whenever the buffer holds fewer than 8 bytes, and the length
\* never exceeds 8.  The code stops appending at 7 bytes: the byte that
\* arrives then is dropped and the buffer emptied.
C16_AppendBelowEight ==
    /\ [](escape_len <= EscapeBufSize)
    /\ [][(InEscape /\ escape_len < EscapeBufSize) => Appended]_vars

(***************************************************************************)
(* The sequence of records handed to write() over a run.                   *)
(***************************************************************************)
\* C17 as stated: every finished run that opened the device wrote Create,
\* then Input records only, then one Destroy as its last record.
C17_CreateInputsDestroy ==
    (pc = "exit" /\ fd # "none") =>
       /\ Len(log) >= 2
       /\ log[1] = CreateEvent
       /\ log[Len(log)] = DestroyEvent
       /\ \A k \in 2..(Len(log) - 1) : IsInput(log[k])

\* C17: at every moment the records written are Create first and once, then
\* Input records, then at most one Destroy, which is the last record and is
\* written as the program exits; nothing is written before Create, and an
\* Input record is written only after a successful Create write.  A run
\* whose Create write succeeded ends with exactly one Destroy; a run whose
\* Create write failed ends with Create as its only record, without Input
\* and without Destroy.
C17_RecordShape ==
    LET n == Len(log)
    IN /\ pc \in {"open", "create"} => n = 0
       /\ n >= 1 => log[1] = CreateEvent
       /\ \A k \in 2..n :
             \/ IsInput(log[k]) /\ fd = "open"
             \/ log[k] = DestroyEvent /\ k = n /\ pc = "exit" /\ fd = "open"
       /\ (pc = "exit" /\ fd = "open") => (n >= 2 /\ log[n] = DestroyEvent)
       /\ fd = "closed" => (pc = "exit" /\ log = <<CreateEvent>>)

\* a finished run: Create, the two reports of one key, Destroy
C17_Witness ==
    /\ pc = "exit"
    /\ Len(log) = 4
    /\ log[1] = CreateEvent
    /\ IsInput(log[2])
    /\ IsInput(log[3])
    /\ log[4] = DestroyEvent

(***************************************************************************)
(* The tracker between two bytes.                                          *)
(***************************************************************************)
\* C18: except between the press report and the release report of a byte,
\* that is whenever keyboard() has finished a byte and whenever the program
\* waits in poll(), no key is pressed and no modifier is set:
\* num_keys_pressed = 0, the six slots are 0 and modifier_keys = 0.  So every
\* Input report has bytes 1 and 3..7 zero (at most one key code, in byte 2),
\* and every second report, the release, is all zeros.
C18_NothingHeldBetweenBytes ==
    LET reports == Reports
    IN /\ pc # "kbd_release" =>
             /\ num_keys_pressed = 0
             /\ key_codes = NoKeys
             /\ modifier_keys = 0
       /\ pc = "kbd_release" =>
             /\ num_keys_pressed = 1
             /\ key_codes = [NoKeys EXCEPT ![0] = hid_code]
       /\ \A k \in 1..Len(reports) :
             /\ reports[k][1] = 0
             /\ \A b \in 3..7 : reports[k][b] = 0
             /\ k % 2 = 0 => reports[k] = ZeroData

\* 'A' is done, the next byte of the chunk is not yet translated
C18_Witness ==
    /\ pc = "kbd_loop"
    /\ Len(buf) >= 2
    /\ buf[1] = 65
    /\ i = 2
    /\ num_keys_pressed = 0
    /\ key_codes = NoKeys
    /\ modifier_keys = 0
    /\ Reports = <<Rep(2, 4), ZeroData>>

(***************************************************************************)
(* Hang-up reported by poll().                                             *)
(***************************************************************************)
HangUp(f) == "POLLHUP" \in f[0] \/ "POLLHUP" \in f[1]

\* C19: a wakeup that reports POLLHUP on stdin or on the device ends the
\* loop at once, whatever else it reports: stdin is not read although it
\* may be readable, the device is not read, the matching diagnostic is
\* printed, and the one write that follows is Destroy.
C19_HangUpEndsLoop ==
    /\ [](HangUp(pfds) => (pc \in {"destroy", "exit"} /\ buf = <<>>))
    /\ [][/\ (pc = "poll" /\ HangUp(pfds')) =>
                /\ pc' = "destroy"
                /\ errmsg' = IF "POLLHUP" \in pfds'[0]
                             THEN "Received HUP on stdin"
                             ELSE "Received HUP on uhid-cdev"
                /\ log' = log
                /\ stdin_read' = stdin_read
          /\ (pc = "destroy" /\ HangUp(pfds)) =>
                /\ pc' = "exit"
                /\ log' = Append(log, DestroyEvent)
                /\ stdin_read' = stdin_read
         ]_vars

\* stdin was readable and hung up, the device readable: teardown, nothing read
C19_Witness ==
    /\ pc = "exit"
    /\ pfds[0] = {"POLLIN", "POLLHUP"}
    /\ pfds[1] = {"POLLIN"}
    /\ errmsg = "Received HUP on stdin"
    /\ stdin_read = <<>>
    /\ log = <<CreateEvent, DestroyEvent>>

(***************************************************************************)
(* The bytes that follow an unresolved ESC '[' X (SpecEsc).                *)
(***************************************************************************)
\* the number of bytes keyboard() has taken since ESC '[' X was buffered,
\* the byte whose press report is written included
TakenSince ==
    Consumed - 3 - (IF pc = "kbd_loop" THEN Len(buf) - i + 1
                    ELSE IF pc = "kbd_release" THEN Len(buf) - i
                    ELSE 0)

\* C20: once ESC '[' X is buffered with X none of 'A'..'D', the next five
\* bytes, whatever they are and however the reads split them, are taken
\* without any Input report: four are appended (lengths 4 to 7) and the
\* fifth empties the buffer.  The sixth is translated in the Normal state:
\* ESC before '[' in its chunk is buffered, any other byte is typed as its
\* own key.
C20_FiveBytesSwallowed ==
    LET n == TakenSince
        bytes == Flatten(stdin_read)
        reports == Reports
    IN /\ n \in 0..4 => (escape_len = 3 + n /\ reports = <<>>)
       /\ n = 5 => (escape_len = 0 /\ reports = <<>>)
       /\ n = 6 =>
             LET c == bytes[9]
                 next == IF pc = "kbd_loop" /\ i >= 2 /\ i <= Len(buf)
                         THEN buf[i] ELSE -1
                 press == Rep(IF IsUpper(c) THEN 2 ELSE 0, ascii_to_hid(c))
             IN IF c = 27 /\ next = 91
                THEN escape_len = 1 /\ escape_buf[0] = 27 /\ reports = <<>>
                ELSE /\ escape_len = 0
                     /\ reports = IF pc = "kbd_release"
                                  THEN <<press>>
                                  ELSE <<press, Rep(0, 0)>>

\* ESC '[' 'A' '[' 'A' went by in three reads without a report, then 'A'
\* was typed
C20_Witness ==
    /\ pc = "poll"
    /\ stdin_read = << <<27, 91, 113>>, <<27, 91>>, <<65, 91, 65>>, <<65>> >>
    /\ TakenSince = 6
    /\ escape_len = 0
    /\ Reports = <<Rep(2, 4), Rep(0, 0)>>
====
